---- MODULE Spec2Model ----
(***************************************************************************)
(* Trend-enrichment subsystem of capstone_project1:                        *)
(*   src/src/utils/trends_cache.py          score cache                    *)
(*   src/src/utils/google_trends_scraper.py rate limiter, circuit breaker, *)
(*                                          get_trend_score                *)
(*   src/src/s1_extract/artists_enricher.py enrich_artist, enricher        *)
(*                                                                         *)
(* Threads: the driver ("main", which also runs the US-gate fetch) and one *)
(* region job per region label, run by a ThreadPoolExecutor of             *)
(* MAX_WORKERS_PER_ARTIST workers.  Time is a discrete monotonic clock;    *)
(* every duration of the source is scaled to whole ticks, keeping their    *)
(* order: jitter, backoff, poll timeout (1 tick) < minimum interval (2)    *)
(* < penalty (3).  A program step takes no time: the clock advances only   *)
(* when every thread is blocked (sleeping, waiting for the lock, waiting   *)
(* for a response or for a future).                                        *)
(***************************************************************************)
EXTENDS Integers, Sequences, FiniteSets, TLC

\* ---------------------------------------------------------------- bounds
MaxTime == 9          \* the clock stops here
MaxCalls == 4         \* outbound requests per run
MaxLatency == 2       \* ticks a request can stay unanswered
MaxLines == 3         \* lines of a log left by an earlier run

\* ------------------------------------------- program constants (in ticks)
MIN_INTERVAL_BETWEEN_CALL == 2
MAX_RETRIES == 2
penalty_seconds == 3
BACKOFF_429 == 1
BACKOFF_ERR == 1
JITTER == 1
POLL_TIMEOUT == 1
SUBJECT_SLEEP == 1
MAX_WORKERS_PER_ARTIST == 2
US_GATE_MIN_PEAK == 50
SAVE_CACHE_EVERY_N_ARTISTS == 1

\* Python's None where a series may stand: a value no series equals
None == <<-1>>
\* no thread (the lock is free, no request was made)
NoThread == "none"

\* --------------------------------------------------------------- regions
\* The first labels of the `regions` dict, in its (insertion) order; a run is
\* configured with a prefix of them.  The geo code of a label is "US-<label>",
\* the national code is "US".
RegionOrder == <<"AL", "AK", "AZ">>
Regions == {RegionOrder[i] : i \in 1..Len(RegionOrder)}
RegionPrefix(n) == SubSeq(RegionOrder, 1, n)
Geo(r) == IF r = "main" THEN "US" ELSE r
Geos == Regions \cup {"US"}
Procs == Regions \cup {"main"}

ToSet(s) == {s[i] : i \in 1..Len(s)}

\* ----------------------------------------------------------------- names
\* A name is a sequence of characters.
Lower(c) == IF c = "A" THEN "a" ELSE IF c = "B" THEN "b" ELSE c

LowerStr(s) == [i \in 1..Len(s) |-> Lower(s[i])]

RECURSIVE LStrip(_)
LStrip(s) == IF s # <<>> /\ Head(s) = " " THEN LStrip(Tail(s)) ELSE s

RECURSIVE RStrip(_)
RStrip(s) == IF s # <<>> /\ s[Len(s)] = " " THEN RStrip(SubSeq(s, 1, Len(s) - 1)) ELSE s

\* str.strip()
Strip(s) == RStrip(LStrip(s))

\* " ".join(x.split()) on a stripped string: runs of blanks become one blank
RECURSIVE Collapse(_)
Collapse(s) ==
    IF Len(s) < 2 THEN s
    ELSE IF s[1] = " " /\ s[2] = " " THEN Collapse(Tail(s))
    ELSE <<s[1]>> \o Collapse(Tail(s))

\* _norm_key
NormKey(s) == Collapse(LowerStr(Strip(s)))

\* ---------------------------------------------------------------- series
\* A series is the sequence of its daily scores (the dates are the indices);
\* <<>> is the empty dict.
SeriesLo == <<30>>
SeriesHi == <<60>>
Series == {SeriesLo, SeriesHi, <<>>}

RECURSIVE MaxOf(_)
MaxOf(s) == IF Len(s) = 1 THEN s[1]
            ELSE IF s[1] >= MaxOf(Tail(s)) THEN s[1] ELSE MaxOf(Tail(s))

\* bool(x) of a dict or None
Truthy(x) == x # None /\ x # <<>>

\* -------------------------------------------------------- input universe
NameA == <<"A">>
NameSpA == <<" ", "a">>
NameB == <<"b">>
NameBlank == <<" ">>
Names == {NameA, NameSpA, NameB, NameBlank}

\* cache ids: "<name>|<geo>|<label>"; the label is the same for every id of a
\* run and is left out
NameKeys == {Strip(n) : n \in Names} \cup {NormKey(n) : n \in Names}
CacheIds == NameKeys \X Geos
EmptyCache == [k \in CacheIds |-> None]

\* an artist record as read from the input file
ArtistRec(n) == [artist |-> n, US_only |-> FALSE, trends |-> [r \in Regions |-> None]]

\* ----------------------------------------------------------------- state
VARIABLES
    now,                \* time.monotonic()
    STOP_EVENT,         \* the cancellation flag
    last_call_ts,       \* __last_call_ts
    penalty_until,      \* __penalty_until
    rate_lock,          \* holder of __rate_lock, or NoThread
    trend_cache,        \* the in-memory cache
    cache_file,         \* the persisted cache
    USE_US_GATE,        \* configuration knob
    regions,            \* the `regions` dict: its labels, in order
    input_artists,      \* the input batch
    output_file,        \* the output log on disk
    out,                \* lines written to the log handle in this run
    processed_names,    \* the resume set
    dpc,                \* where the driver thread is
    idx,                \* position in input_artists
    artist,             \* the record being enriched
    saved_since_flush,
    futures,            \* enrich_artist's `futures` (by region label)
    queue,              \* the executor's work queue
    wait_end,           \* deadline of the driver's wait()/sleep()
    exc,                \* an exception is propagating out of the loop
    th,                 \* per thread: position in get_trend_score and its locals
    call,               \* history: the last outbound request started
    subj,               \* history: facts about the subject being enriched
    stop_at,            \* history: when and where the flag was set
    cache_op,           \* a client of the cache module: its last set and where it is
    latest,             \* _latest_batch_with_scraper_file() finds an input batch
    window              \* date.today(), and the windows computed from it

vars == <<now, STOP_EVENT, last_call_ts, penalty_until, rate_lock, trend_cache,
          cache_file, USE_US_GATE, regions, input_artists, output_file, out,
          processed_names, dpc, idx, artist, saved_since_flush, futures, queue,
          wait_end, exc, th, call, subj, stop_at, cache_op, latest, window>>

limiterVars == <<last_call_ts, penalty_until, rate_lock>>
driverVars == <<input_artists, output_file, out, processed_names, dpc, idx, artist,
                saved_since_flush, futures, queue, wait_end, exc, USE_US_GATE, regions>>

\* the cache client of the next section has done nothing
NoCacheOp == [step |-> "none", key |-> <<>>, score |-> None]

IdleThread == [pc |-> "idle", attempt |-> 0, lnow |-> 0, end |-> 0, ret |-> None,
               ser |-> None, nreq |-> 0, last |-> "none"]

NoSubject == [active |-> FALSE, cachedAll |-> FALSE, gate |-> None, gated |-> FALSE,
              jobs |-> {}, midCancel |-> FALSE]

\* the flag has not been set
NotStopped == [t |-> 0, outstanding |-> FALSE, lines |-> 0, busy |-> FALSE]

\* the log line written for a record
Line(n) == ArtistRec(n)

\* ---------------------------------------------------------------- dates
\* a date is <<year, month, day>>
Years == {2000, 2024, 2025, 2100}

\* calendar.isleap
isleap(y) == y % 4 = 0 /\ (y % 100 # 0 \/ y % 400 = 0)

\* calendar.monthrange(year, month)[1]: the number of days of the month
mdays == <<31, 28, 31, 30, 31, 30, 31, 31, 30, 31, 30, 31>>
monthrange(y, m) == mdays[m] + (IF m = 2 /\ isleap(y) THEN 1 ELSE 0)

\* the dates date.today() can return
Dates == {d \in Years \X (1..12) \X (1..31) : d[3] <= monthrange(d[1], d[2])}

\* strftime('%b_%Y') of a year and a month: "<abbreviated month>_<year>"
month_abbr == <<"Jan", "Feb", "Mar", "Apr", "May", "Jun",
                "Jul", "Aug", "Sep", "Oct", "Nov", "Dec">>
strftime_b_Y(y, m) == <<month_abbr[m], y>>

\* nothing computed yet
NoLabel == <<"", 0>>
NoFetchWindow == [label |-> NoLabel, start |-> <<0, 0, 0>>, end |-> <<0, 0, 0>>]
NoWindow == [today |-> <<0, 0, 0>>, label |-> NoLabel, fetch |-> NoFetchWindow]

\* faulty variant: January is not rolled back to the year before
last_complete_month_same_year(today) ==
    strftime_b_Y(today[1], IF today[2] = 1 THEN 12 ELSE today[2] - 1)

\* _last_complete_month_label (the driver's, lines 43-46)
last_complete_month_label(today) ==
    IF today[2] = 1 THEN strftime_b_Y(today[1] - 1, 12)
                    ELSE strftime_b_Y(today[1], today[2] - 1)

\* get_trend_score_last_complete_month, lines 156-167: the month before today's,
\* its label, and its first and last day
fetch_window(today) ==
    LET year == IF today[2] = 1 THEN today[1] - 1 ELSE today[1]
        month == IF today[2] = 1 THEN 12 ELSE today[2] - 1
    IN  [label |-> strftime_b_Y(year, month),
         start |-> <<year, month, 1>>,
         end |-> <<year, month, monthrange(year, month)>>]

\* ------------------------------------------------------------ initial state
\* input batches: two subjects; a subject and a blank name; one subject twice,
\* in two spellings
InputLists == {<<NameA, NameB>>, <<NameSpA, NameBlank>>, <<NameA, NameSpA>>}

\* lines of a log that are no record with a string name: text that is no JSON
\* (an empty line too), a JSON array, an object whose name is null, an object
\* without a name
TextLine == [json |-> "invalid"]
ArrayLine == [json |-> "array"]
NullNameLine == [json |-> "null_name"]
NoNameLine == [json |-> "no_name"]
MalformedLines == {TextLine, ArrayLine, NullNameLine, NoNameLine}

\* the line is a record with a string name
WellFormed(l) == "artist" \in DOMAIN l

\* every log of at most MaxLines lines, well-formed or not
ScanLogs ==
    UNION {[1..n -> {Line(NameA), Line(NameB)} \cup MalformedLines] : n \in 0..MaxLines}

\* logs left by earlier runs
Logs == {<<>>, <<Line(NameA)>>, <<Line(NameA), Line(NameB)>>}

\* cache files left by earlier runs: none, or every fingerprint of "a"
CachedA == [k \in CacheIds |->
              IF k[1] = NormKey(NameA)
                 THEN (IF k[2] = "AK" THEN SeriesLo ELSE SeriesHi)
                 ELSE None]

\* faulty variant: empty series are left out of the file
json_dump_nonempty(d) == {<<k, d[k]>> : k \in {x \in DOMAIN d : Truthy(d[x])}}

\* json.dump of the cache dict: an object with one member per key of the dict
json_dump(d) == {<<k, d[k]>> : k \in {x \in DOMAIN d : d[x] # None}}

\* json.load of such an object: the dict with the object's members
json_load(obj) ==
    [k \in CacheIds |-> IF \E m \in obj : m[1] = k
                           THEN (CHOOSE m \in obj : m[1] = k)[2]
                           ELSE None]

\* CACHE_FILE: whether it exists, and the object it holds
NoFile == [exists |-> FALSE, obj |-> {}]
FileOf(d) == [exists |-> TRUE, obj |-> json_dump(d)]
CacheFiles == {NoFile, FileOf(CachedA)}

\* the state when enricher() is called, for a choice of the input batch, the log
\* and cache file of earlier runs, and the gate knob
InitRun(inputs, logs, caches, gates, regs) ==
    /\ now = MIN_INTERVAL_BETWEEN_CALL
    /\ STOP_EVENT = FALSE
    /\ last_call_ts = 0
    /\ penalty_until = 0
    /\ rate_lock = NoThread
    /\ trend_cache = EmptyCache
    /\ cache_file \in caches
    /\ USE_US_GATE \in gates
    /\ regions \in regs
    /\ input_artists \in inputs
    /\ output_file \in logs
    /\ out = <<>>
    /\ processed_names = {}
    /\ dpc = "start"
    /\ idx = 1
    /\ artist = ArtistRec(<<>>)
    /\ saved_since_flush = 0
    /\ futures = {}
    /\ queue = <<>>
    /\ wait_end = 0
    /\ exc = FALSE
    /\ th = [p \in Procs |-> IdleThread]
    /\ call = [n |-> 0, t |-> 0, gap |-> MIN_INTERVAL_BETWEEN_CALL, pen |-> 0]
    /\ subj = NoSubject
    /\ stop_at = NotStopped
    /\ cache_op = NoCacheOp

\* the same, with an input batch on disk
InitWith(inputs, logs, caches, gates, regs) ==
    InitRun(inputs, logs, caches, gates, regs) /\ latest = TRUE /\ window = NoWindow

\* one subject fanned out over two regions, nothing cached, no earlier log
Init == InitWith({<<NameA>>}, {<<>>}, {NoFile}, BOOLEAN, {RegionPrefix(2)})

\* two subjects over one region, with the logs and cache files of earlier runs
InitDriver == InitWith(InputLists, Logs, CacheFiles, BOOLEAN, {RegionPrefix(1)})

\* ------------------------------------------------------------ score cache
\* load_cache: the file's dict replaces trend_cache; nothing happens without a file
load_cache == IF cache_file.exists THEN json_load(cache_file.obj) ELSE trend_cache

\* save_cache: the whole dict is dumped over the file
save_cache == FileOf(trend_cache)

\* get_cached_score
get_cached_score(cache_id) == trend_cache[cache_id]

\* faulty variant: the score is not stored
set_cached_score_dropped(cache_id, score) == trend_cache

\* set_cached_score
set_cached_score(cache_id, score) == [trend_cache EXCEPT ![cache_id] = score]

\* ------------------------------------------- a client of the cache module
\* the fingerprints the client works with
ProbeIds == {<<NormKey(NameA), "US">>, <<NormKey(NameA), "AL">>, <<NormKey(NameB), "AL">>}

\* set_cached_score(F, S)
CacheSet(F, S) ==
    /\ trend_cache' = set_cached_score(F, S)
    /\ cache_op' = [step |-> "set", key |-> F, score |-> S]
    /\ UNCHANGED <<now, STOP_EVENT, limiterVars, cache_file, driverVars, th, call,
                   subj, stop_at, latest, window>>

\* save_cache()
CacheSave ==
    /\ cache_op.step = "set"
    /\ cache_file' = save_cache
    /\ cache_op' = [cache_op EXCEPT !.step = "saved"]
    /\ UNCHANGED <<now, STOP_EVENT, limiterVars, trend_cache, driverVars, th, call,
                   subj, stop_at, latest, window>>

\* load_cache(), at the start or after a save
CacheLoad ==
    /\ cache_op.step \in {"none", "saved"}
    /\ trend_cache' = load_cache
    /\ cache_op' = [cache_op EXCEPT !.step = IF @ = "saved" THEN "loaded" ELSE @]
    /\ UNCHANGED <<now, STOP_EVENT, limiterVars, cache_file, driverVars, th, call,
                   subj, stop_at, latest, window>>

\* the cache module on its own, with the cache file of an earlier run or none
InitCache == InitWith({<<NameA>>}, {<<>>}, CacheFiles, {FALSE}, {RegionPrefix(1)})

NextCache ==
    \/ \E F \in ProbeIds, S \in Series : CacheSet(F, S)
    \/ CacheSave
    \/ CacheLoad

SpecCache == InitCache /\ [][NextCache]_vars

\* ---------------------------------------------------------- trend fetcher
\* the name enrich_artist works with
CurName == Strip(artist.artist)

\* faulty variant: the fetcher keys the cache by the name as given
raw_fetch_id(name, p) == <<name, Geo(p)>>

\* the fetcher's cache id (line 98) for a name and the geo of thread p
fetch_id(name, p) == <<NormKey(name), Geo(p)>>
cache_id(p) == fetch_id(CurName, p)

\* the call is over: its locals are gone, the request count and the last
\* response stay for the record
Returned(t, v) == [IdleThread EXCEPT !.pc = "ret", !.ret = v, !.nreq = t.nreq,
                                     !.last = t.last]

\* lines 105-111 and 61: the top of an attempt looks at the flag twice and then
\* waits for __rate_lock
AttemptBegin(t, att) ==
    IF STOP_EVENT THEN Returned(t, None)
    ELSE [t EXCEPT !.pc = "lock", !.attempt = att, !.end = 0]

\* faulty variant: the fetcher does not look in the cache
GtsEnterNoCache(p, name) ==
    IF STOP_EVENT THEN Returned(IdleThread, None) ELSE AttemptBegin(IdleThread, 1)

\* get_trend_score, lines 95-104: the flag, the cache, then the first attempt
GtsEnter(p, name) ==
    IF STOP_EVENT THEN Returned(IdleThread, None)
    ELSE IF get_cached_score(fetch_id(name, p)) # None
         THEN Returned(IdleThread, get_cached_score(fetch_id(name, p)))
    ELSE AttemptBegin(IdleThread, 1)

\* faulty variant: the spacing wait is one tick short
ShortSpacingWait(lnow) == MIN_INTERVAL_BETWEEN_CALL - 1 - (lnow - last_call_ts)

\* line 74: the inter-call spacing still to wait, from the `now` read at line 65
SpacingWait(lnow) == MIN_INTERVAL_BETWEEN_CALL - (lnow - last_call_ts)

\* lines 74-79: wait for the spacing, or record the call and release the lock
Spacing(p, lnow) ==
    IF SpacingWait(lnow) > 0
       THEN /\ th' = [th EXCEPT ![p].pc = "gap_sleep", ![p].lnow = lnow,
                                ![p].end = now + SpacingWait(lnow)]
            /\ rate_lock' = p
            /\ UNCHANGED last_call_ts
       ELSE /\ th' = [th EXCEPT ![p].pc = "precall", ![p].lnow = 0, ![p].end = 0]
            /\ rate_lock' = NoThread
            /\ last_call_ts' = now

\* line 68
PenaltyActive(lnow) == lnow < penalty_until

\* faulty variant: the throttle does not wait for __rate_lock
ThrottleAcquireUnlocked(p) ==
    /\ th[p].pc = "lock"
    /\ IF PenaltyActive(now)
          THEN /\ th' = [th EXCEPT ![p].pc = "pen_sleep", ![p].lnow = now,
                                   ![p].end = now + (penalty_until - now)]
               /\ rate_lock' = p
               /\ UNCHANGED last_call_ts
          ELSE Spacing(p, now)
    /\ UNCHANGED <<now, STOP_EVENT, penalty_until, trend_cache, cache_file,
                   driverVars, call, subj, stop_at, cache_op, latest, window>>

\* lines 64-77: take __rate_lock, read the clock, start the penalty or spacing wait
ThrottleAcquire(p) ==
    /\ th[p].pc = "lock"
    /\ rate_lock = NoThread
    /\ IF PenaltyActive(now)
          THEN /\ th' = [th EXCEPT ![p].pc = "pen_sleep", ![p].lnow = now,
                                   ![p].end = now + (penalty_until - now)]
               /\ rate_lock' = p
               /\ UNCHANGED last_call_ts
          ELSE Spacing(p, now)
    /\ UNCHANGED <<now, STOP_EVENT, penalty_until, trend_cache, cache_file,
                   driverVars, call, subj, stop_at, cache_op, latest, window>>

\* faulty variant: the sleep does not look at the flag
NeverCancelled(p) == FALSE

\* _sleep_with_cancel: the loop leaves when the time is up (True), else when the
\* flag is seen (False); otherwise it sleeps another tick
SleepOver(p) == now >= th[p].end
SleepCancelled(p) == ~SleepOver(p) /\ STOP_EVENT

\* faulty variant: a cancelled penalty wait returns with __rate_lock still held
PenaltyWakeKeepsLock(p) ==
    /\ th[p].pc = "pen_sleep"
    /\ \/ /\ SleepOver(p)
          /\ Spacing(p, th[p].lnow)
       \/ /\ SleepCancelled(p)
          /\ th' = [th EXCEPT ![p] = Returned(@, None)]
          /\ UNCHANGED <<rate_lock, last_call_ts>>
    /\ UNCHANGED <<now, STOP_EVENT, penalty_until, trend_cache, cache_file,
                   driverVars, call, subj, stop_at, cache_op, latest, window>>

\* lines 70-71: the penalty wait ends
PenaltyWake(p) ==
    /\ th[p].pc = "pen_sleep"
    /\ \/ /\ SleepOver(p)
          /\ Spacing(p, th[p].lnow)
       \/ /\ SleepCancelled(p)
          /\ th' = [th EXCEPT ![p] = Returned(@, None)]
          /\ rate_lock' = NoThread
          /\ UNCHANGED last_call_ts
    /\ UNCHANGED <<now, STOP_EVENT, penalty_until, trend_cache, cache_file,
                   driverVars, call, subj, stop_at, cache_op, latest, window>>

\* faulty variant: a cancelled spacing wait records the call all the same
SpacingWakeRecords(p) ==
    /\ th[p].pc = "gap_sleep"
    /\ \/ /\ SleepOver(p)
          /\ th' = [th EXCEPT ![p].pc = "precall", ![p].lnow = 0, ![p].end = 0]
       \/ /\ SleepCancelled(p)
          /\ th' = [th EXCEPT ![p] = Returned(@, None)]
    /\ last_call_ts' = now
    /\ rate_lock' = NoThread
    /\ UNCHANGED <<now, STOP_EVENT, penalty_until, trend_cache, cache_file,
                   driverVars, call, subj, stop_at, cache_op, latest, window>>

\* lines 76-79: the spacing wait ends
SpacingWake(p) ==
    /\ th[p].pc = "gap_sleep"
    /\ \/ /\ SleepOver(p)
          /\ th' = [th EXCEPT ![p].pc = "precall", ![p].lnow = 0, ![p].end = 0]
          /\ last_call_ts' = now
       \/ /\ SleepCancelled(p)
          /\ th' = [th EXCEPT ![p] = Returned(@, None)]
          /\ UNCHANGED last_call_ts
    /\ rate_lock' = NoThread
    /\ UNCHANGED <<now, STOP_EVENT, penalty_until, trend_cache, cache_file,
                   driverVars, call, subj, stop_at, cache_op, latest, window>>

\* lines 82-85: the last look at the flag, then the outbound request starts
StartCall(p) ==
    /\ th[p].pc = "precall"
    /\ IF STOP_EVENT
          THEN /\ th' = [th EXCEPT ![p] = Returned(@, None)]
               /\ UNCHANGED call
          ELSE /\ call.n < MaxCalls
               /\ th' = [th EXCEPT ![p].pc = "inflight", ![p].nreq = @ + 1,
                                   ![p].end = now + MaxLatency]
               /\ call' = [n |-> call.n + 1, t |-> now,
                           gap |-> IF call.n = 0 THEN MIN_INTERVAL_BETWEEN_CALL
                                                 ELSE now - call.t,
                           pen |-> penalty_until]
    /\ UNCHANGED <<now, STOP_EVENT, limiterVars, trend_cache, cache_file,
                   driverVars, subj, stop_at, cache_op, latest, window>>

\* lines 112-118: the response holds the artist's column; the series is cached
\* and the jitter sleep starts
RespondData(p, s) ==
    /\ th[p].pc = "inflight"
    /\ trend_cache' = set_cached_score(cache_id(p), s)
    /\ th' = [th EXCEPT ![p].pc = "jitter", ![p].ser = s, ![p].last = "data",
                        ![p].end = now + JITTER]
    /\ UNCHANGED <<now, STOP_EVENT, limiterVars, cache_file, driverVars, call,
                   subj, stop_at, cache_op, latest, window>>

\* faulty variant: the fetched series is stored but not returned
NothingFetched(t) == None

\* line 120: return trend_series
Fetched(t) == t.ser

\* lines 118-120: the jitter sleep ends
JitterWake(p) ==
    /\ th[p].pc = "jitter"
    /\ \/ SleepOver(p) /\ th' = [th EXCEPT ![p] = Returned(@, Fetched(th[p]))]
       \/ SleepCancelled(p) /\ th' = [th EXCEPT ![p] = Returned(@, None)]
    /\ UNCHANGED <<now, STOP_EVENT, limiterVars, trend_cache, cache_file,
                   driverVars, call, subj, stop_at, cache_op, latest, window>>

\* lines 121-122: an empty frame, or one without the artist's column
RespondEmpty(p) ==
    /\ th[p].pc = "inflight"
    /\ th' = [th EXCEPT ![p] = [Returned(@, None) EXCEPT !.last = "empty"]]
    /\ UNCHANGED <<now, STOP_EVENT, limiterVars, trend_cache, cache_file,
                   driverVars, call, subj, stop_at, cache_op, latest, window>>

\* faulty variant: one attempt too many
AttemptsLeftInclusive(att) == att <= MAX_RETRIES

\* lines 135 and 143
AttemptsLeft(att) == att < MAX_RETRIES

\* faulty variant: a window that is still open is not extended
NewPenaltyIfNone == IF penalty_until > now THEN penalty_until ELSE now + penalty_seconds

\* line 133
NewPenalty == IF penalty_until >= now + penalty_seconds
                 THEN penalty_until ELSE now + penalty_seconds

\* faulty variant: the last failure is raised to the caller
AfterFailureRaise(t, kind, backoff) ==
    IF t.attempt < MAX_RETRIES
       THEN [t EXCEPT !.pc = "backoff", !.last = kind, !.end = now + backoff]
       ELSE [t EXCEPT !.pc = "raised", !.last = kind]

\* the handler's exit: back off and retry, or give up with None
AfterFailure(t, kind, backoff) ==
    IF AttemptsLeft(t.attempt)
       THEN [t EXCEPT !.pc = "backoff", !.last = kind, !.end = now + backoff]
       ELSE [Returned(t, None) EXCEPT !.last = kind]

\* lines 123-140: an exception whose text holds "429"
Respond429(p) ==
    /\ th[p].pc = "inflight"
    /\ penalty_until' = NewPenalty
    /\ th' = [th EXCEPT ![p] = AfterFailure(@, "429", BACKOFF_429)]
    /\ UNCHANGED <<now, STOP_EVENT, last_call_ts, rate_lock, trend_cache,
                   cache_file, driverVars, call, subj, stop_at, cache_op, latest, window>>

\* lines 123-126 and 142-147: any other exception
RespondError(p) ==
    /\ th[p].pc = "inflight"
    /\ th' = [th EXCEPT ![p] = AfterFailure(@, "error", BACKOFF_ERR)]
    /\ UNCHANGED <<now, STOP_EVENT, limiterVars, trend_cache, cache_file,
                   driverVars, call, subj, stop_at, cache_op, latest, window>>

\* lines 137-139 and 144-146: the backoff sleep ends
BackoffWake(p) ==
    /\ th[p].pc = "backoff"
    /\ \/ SleepOver(p) /\ th' = [th EXCEPT ![p] = AttemptBegin(@, @.attempt + 1)]
       \/ SleepCancelled(p) /\ th' = [th EXCEPT ![p] = Returned(@, None)]
    /\ UNCHANGED <<now, STOP_EVENT, limiterVars, trend_cache, cache_file,
                   driverVars, call, subj, stop_at, cache_op, latest, window>>

\* -------------------------------------------------------------- the driver

\* line 92: json.loads raises JSONDecodeError on text that is no JSON
JSONDecodeError(l) == ~WellFormed(l) /\ l.json = "invalid"

\* line 93: rec.get on a value that is no object, or .strip() on a name that is
\* no string, raises AttributeError
AttributeError(l) == ~WellFormed(l) /\ l.json \in {"array", "null_name"}

\* line 93: the name of a parsed line, "" when the object has none
NameOf(l) == IF WellFormed(l) THEN LowerStr(Strip(l.artist)) ELSE <<>>

\* lines 90-97: the loop over the lines from line i on; only JSONDecodeError is
\* caught, any other exception leaves the function
RECURSIVE ScanFrom(_, _, _)
ScanFrom(lines, i, names) ==
    IF i > Len(lines) THEN [raised |-> FALSE, names |-> names]
    ELSE IF JSONDecodeError(lines[i]) THEN ScanFrom(lines, i + 1, names)
    ELSE IF AttributeError(lines[i]) THEN [raised |-> TRUE, names |-> names]
    ELSE ScanFrom(lines, i + 1, names \cup ({NameOf(lines[i])} \ {<<>>}))

\* get_processed_artist_names: the names of the log's lines, trimmed, lower-cased
get_processed_artist_names(lines) == ScanFrom(lines, 1, {}).names

\* get_processed_artist_names leaves with an exception
ScanRaises(lines) == ScanFrom(lines, 1, {}).raised

\* faulty variant: the resume set is looked up without lower-casing
IsProcessedExact(name) == name \in processed_names

\* line 167: name.lower() in processed_names
IsProcessed(name) == LowerStr(name) \in processed_names

\* faulty variant: the run goes on without a batch
BatchAlwaysFound == FALSE

\* lines 141-145: no dated directory holds a scraper file
BatchMissing == ~latest

\* enricher, lines 141-158: the batch is looked for, the resume set is read and
\* the cache loaded; FileNotFoundError without a batch, and an exception of the
\* scan, leave enricher before its try block
DriverStart ==
    /\ dpc = "start"
    /\ IF BatchMissing \/ ScanRaises(output_file)
          THEN /\ dpc' = "aborted"
               /\ UNCHANGED <<processed_names, trend_cache, saved_since_flush>>
          ELSE /\ processed_names' = get_processed_artist_names(output_file)
               /\ trend_cache' = load_cache
               /\ saved_since_flush' = 0
               /\ dpc' = "loop"
    /\ UNCHANGED <<now, STOP_EVENT, limiterVars, cache_file, USE_US_GATE,
                   regions, input_artists, output_file, out, idx, artist,
                   futures, queue, wait_end, exc, th, call, subj, stop_at, cache_op, latest, window>>

\* faulty variant: the loop does not look at the flag
LoopEndsAtInputEnd == idx > Len(input_artists)

\* lines 161-163: the input is exhausted, or the flag is set
LoopEnds == idx > Len(input_artists) \/ STOP_EVENT

\* lines 161-171: the loop head, up to the call of enrich_artist
DriverLoop ==
    /\ dpc = "loop"
    /\ IF LoopEnds
          THEN dpc' = "finally" /\ UNCHANGED <<idx, artist, subj, th>>
       ELSE IF Strip(input_artists[idx]) = <<>> \/ IsProcessed(Strip(input_artists[idx]))
          THEN idx' = idx + 1 /\ UNCHANGED <<dpc, artist, subj, th>>
       ELSE /\ dpc' = "enrich"
            /\ artist' = ArtistRec(input_artists[idx])
            /\ subj' = NoSubject
            /\ th' = [p \in Procs |-> IdleThread]
            /\ UNCHANGED idx
    /\ UNCHANGED <<now, STOP_EVENT, limiterVars, trend_cache, cache_file,
                   USE_US_GATE, regions, input_artists, output_file, out,
                   processed_names, saved_since_flush, futures, queue, wait_end,
                   exc, call, stop_at, cache_op, latest, window>>

\* line 113: enrich_artist's own cache id, built from the trimmed name
scan_id(name, r) == <<name, Geo(r)>>

\* line 115: the regions that get a job
Jobs == SelectSeq(regions, LAMBDA r : get_cached_score(scan_id(CurName, r)) = None)

\* lines 110-124: merge the cached regions, submit a job for each of the others
RegionScan ==
    /\ artist' = [artist EXCEPT !.trends =
                    [r \in Regions |->
                        IF r \in ToSet(regions) /\ get_cached_score(scan_id(CurName, r)) # None
                           THEN get_cached_score(scan_id(CurName, r)) ELSE @[r]]]
    /\ IF Jobs = <<>>
          THEN /\ dpc' = "write"
               /\ th' = [th EXCEPT !["main"] = IdleThread]
               /\ UNCHANGED <<futures, queue>>
          ELSE /\ dpc' = "poll"
               /\ queue' = Jobs
               /\ futures' = ToSet(Jobs)
               /\ th' = [p \in Procs |-> IF p \in ToSet(Jobs)
                                            THEN [IdleThread EXCEPT !.pc = "queued"]
                                            ELSE IdleThread]

\* every fingerprint of this subject (normalised name, geo) is cached: the
\* regions', and with the gate the national one
AllCached(name) ==
    \A g \in ToSet(regions) \cup (IF USE_US_GATE THEN {"US"} ELSE {}) :
        get_cached_score(<<NormKey(name), g>>) # None

\* lines 100-105: enrich_artist starts; with the gate, the national fetch
EnrichArtist ==
    /\ dpc = "enrich"
    /\ IF USE_US_GATE
          THEN /\ th' = [th EXCEPT !["main"] = GtsEnter("main", CurName)]
               /\ dpc' = "gate"
               /\ subj' = [subj EXCEPT !.active = TRUE, !.cachedAll = AllCached(CurName)]
               /\ UNCHANGED <<artist, futures, queue>>
          ELSE /\ RegionScan
               /\ subj' = [subj EXCEPT !.active = TRUE, !.cachedAll = AllCached(CurName),
                                       !.jobs = ToSet(Jobs)]
    /\ UNCHANGED <<now, STOP_EVENT, limiterVars, trend_cache, cache_file,
                   USE_US_GATE, regions, input_artists, output_file, out,
                   processed_names, idx, saved_since_flush, wait_end, exc, call,
                   stop_at, cache_op, latest, window>>

\* faulty variant: the gate passes on any national data
passes_any_peak(us_scores) == Truthy(us_scores)

\* passes_us_gate, line 50
passes_us_gate(us_scores) == Truthy(us_scores) /\ MaxOf(us_scores) >= US_GATE_MIN_PEAK

\* lines 105-108: the national fetch has returned
GateDone ==
    /\ dpc = "gate"
    /\ th["main"].pc = "ret"
    /\ IF passes_us_gate(th["main"].ret)
          THEN /\ RegionScan
               /\ subj' = [subj EXCEPT !.gate = th["main"].ret, !.jobs = ToSet(Jobs)]
          ELSE /\ artist' = [artist EXCEPT !.US_only = TRUE]
               /\ dpc' = "write"
               /\ th' = [th EXCEPT !["main"] = IdleThread]
               /\ subj' = [subj EXCEPT !.gate = th["main"].ret, !.gated = TRUE]
               /\ UNCHANGED <<futures, queue>>
    /\ UNCHANGED <<now, STOP_EVENT, limiterVars, trend_cache, cache_file,
                   USE_US_GATE, regions, input_artists, output_file, out,
                   processed_names, idx, saved_since_flush, wait_end, exc, call,
                   stop_at, cache_op, latest, window>>

\* faulty variant: the executor takes no account of its busy workers
NoneRunning == {}

\* jobs a pool worker is executing
Running == {r \in Regions : th[r].pc \notin {"idle", "queued", "ret"}}

\* the executor hands the oldest queued job to a free worker; _region_job
\* (lines 52-56) looks at the flag and calls the fetcher
JobStart(r) ==
    /\ queue # <<>>
    /\ r = Head(queue)
    /\ Cardinality(Running) < MAX_WORKERS_PER_ARTIST
    /\ queue' = Tail(queue)
    /\ th' = [th EXCEPT ![r] = GtsEnter(r, CurName)]
    /\ UNCHANGED <<now, STOP_EVENT, limiterVars, trend_cache, cache_file,
                   USE_US_GATE, regions, input_artists, output_file, out,
                   processed_names, dpc, idx, artist, saved_since_flush, futures,
                   wait_end, exc, call, subj, stop_at, cache_op, latest, window>>

\* line 125: the loop condition; leaving the loop leaves the `with` block, whose
\* exit is ThreadPoolExecutor.shutdown(wait=True)
Poll ==
    /\ dpc = "poll"
    /\ IF futures # {} /\ ~STOP_EVENT
          THEN dpc' = "wait" /\ wait_end' = now + POLL_TIMEOUT /\ UNCHANGED subj
          ELSE /\ dpc' = "shutdown"
               /\ subj' = [subj EXCEPT !.midCancel = (futures # {})]
               /\ UNCHANGED wait_end
    /\ UNCHANGED <<now, STOP_EVENT, limiterVars, trend_cache, cache_file,
                   USE_US_GATE, regions, input_artists, output_file, out,
                   processed_names, idx, artist, saved_since_flush, futures,
                   queue, exc, th, call, stop_at, cache_op, latest, window>>

Done == {r \in futures : th[r].pc = "ret"}

\* faulty variant: a completed job's series is dropped
MergeNothing(trends, done) == trends

\* lines 131-135: a completed job's series is merged when it is truthy
Merge(trends, done) ==
    [r \in Regions |-> IF r \in done /\ Truthy(th[r].ret) THEN th[r].ret ELSE trends[r]]

\* lines 126-137: wait() returns on the first completion or on its timeout, and
\* every future it reports done is popped and merged
WaitReturn ==
    /\ dpc = "wait"
    /\ Done # {} \/ now >= wait_end
    /\ artist' = [artist EXCEPT !.trends = Merge(@, Done)]
    /\ futures' = futures \ Done
    /\ dpc' = "poll"
    /\ wait_end' = 0
    /\ UNCHANGED <<now, STOP_EVENT, limiterVars, trend_cache, cache_file,
                   USE_US_GATE, regions, input_artists, output_file, out,
                   processed_names, idx, saved_since_flush, queue, exc, th, call,
                   subj, stop_at, cache_op, latest, window>>

\* faulty variant: the executor is left without waiting for its jobs
PoolAbandoned == TRUE

\* the executor's shutdown waits for every queued and running job
PoolDrained == queue = <<>> /\ Running = {}

\* faulty variant: enrich_artist clears the flag when it returns
EnrichReturnClearing ==
    /\ dpc = "shutdown"
    /\ PoolDrained
    /\ dpc' = "write"
    /\ STOP_EVENT' = FALSE
    /\ UNCHANGED <<now, limiterVars, trend_cache, cache_file,
                   USE_US_GATE, regions, input_artists, output_file, out,
                   processed_names, idx, artist, saved_since_flush, futures,
                   queue, wait_end, exc, th, call, subj, stop_at, cache_op, latest, window>>

\* line 138: the `with` block is left and enrich_artist returns
EnrichReturn ==
    /\ dpc = "shutdown"
    /\ PoolDrained
    /\ dpc' = "write"
    /\ UNCHANGED <<now, STOP_EVENT, limiterVars, trend_cache, cache_file,
                   USE_US_GATE, regions, input_artists, output_file, out,
                   processed_names, idx, artist, saved_since_flush, futures,
                   queue, wait_end, exc, th, call, subj, stop_at, cache_op, latest, window>>

\* lines 176-177
FlushDue(n) == n >= SAVE_CACHE_EVERY_N_ARTISTS

\* lines 172-179: the record is written, the cache saved when due, and the
\* driver sleeps; or the write raises (OSError)
WriteRecord ==
    /\ dpc = "write"
    /\ \/ /\ out' = Append(out, artist)
          /\ IF FlushDue(saved_since_flush + 1)
                THEN cache_file' = save_cache /\ saved_since_flush' = 0
                ELSE saved_since_flush' = saved_since_flush + 1 /\ UNCHANGED cache_file
          /\ dpc' = "sleep"
          /\ wait_end' = now + SUBJECT_SLEEP
          /\ UNCHANGED exc
       \/ /\ exc' = TRUE
          /\ dpc' = "finally"
          /\ UNCHANGED <<out, cache_file, saved_since_flush, wait_end>>
    /\ UNCHANGED <<now, STOP_EVENT, limiterVars, trend_cache, USE_US_GATE,
                   regions, input_artists, output_file, processed_names, idx,
                   artist, futures, queue, th, call, subj, stop_at, cache_op, latest, window>>

\* line 179 is over: the next subject
NextSubject ==
    /\ dpc = "sleep"
    /\ now >= wait_end
    /\ idx' = idx + 1
    /\ dpc' = "loop"
    /\ wait_end' = 0
    /\ UNCHANGED <<now, STOP_EVENT, limiterVars, trend_cache, cache_file,
                   USE_US_GATE, regions, input_artists, output_file, out,
                   processed_names, artist, saved_since_flush, futures, queue,
                   exc, th, call, subj, stop_at, cache_op, latest, window>>

\* faulty variant: the exit handler leaves the file as it is
NoFinalSave == cache_file

\* the exit handler of lines 180-181
FinalSave == save_cache

\* lines 160 and 180-182: the log is closed (what was written reaches the
\* disk) and the cache is saved; then enricher returns or the exception goes on
Finally ==
    /\ dpc = "finally"
    /\ output_file' = output_file \o out
    /\ UNCHANGED out
    /\ cache_file' = FinalSave
    /\ dpc' = IF exc THEN "raised" ELSE "done"
    /\ UNCHANGED <<now, STOP_EVENT, limiterVars, trend_cache, USE_US_GATE,
                   regions, input_artists, processed_names, idx, artist,
                   saved_since_flush, futures, queue, wait_end, exc, th, call,
                   subj, stop_at, cache_op, latest, window>>

\* ---------------------------------------------------------- environment
\* enrich_artist is in its wait loop with futures left
FanOutOutstanding == dpc \in {"poll", "wait"} /\ futures # {}

\* the driver is past the loop check of line 162 for the subject at idx and has
\* not yet written its record
SubjectBegun == dpc \in {"enrich", "gate", "poll", "wait", "shutdown", "write"}

\* _on_sigint
SigInt ==
    /\ ~STOP_EVENT
    /\ dpc \notin {"start", "done", "raised", "aborted", "crashed"}
    /\ STOP_EVENT' = TRUE
    /\ stop_at' = [t |-> IF FanOutOutstanding THEN now ELSE 0,
                    outstanding |-> FanOutOutstanding,
                    lines |-> Len(out),
                    busy |-> SubjectBegun]
    /\ UNCHANGED <<now, limiterVars, trend_cache, cache_file, driverVars, th,
                   call, subj, cache_op, latest, window>>

\* what the log on disk can hold of the lines written to the handle: line 172
\* writes into the buffer of the file object, which reaches the disk when the
\* buffer is full or the file is closed; a line cut by the end of a buffer is
\* text that is no JSON
OnDisk(written) ==
    {SubSeq(written, 1, k) : k \in 0..Len(written)}
        \cup {Append(SubSeq(written, 1, k - 1), TextLine) : k \in 1..Len(written)}

\* the process is killed (SIGKILL, power loss): its threads and its memory are
\* gone, the files are what had reached the disk
Crash ==
    /\ dpc \notin {"start", "done", "raised", "aborted", "crashed"}
    /\ dpc' = "crashed"
    /\ \E tail \in OnDisk(out) : output_file' = output_file \o tail
    /\ th' = [p \in Procs |-> IdleThread]
    /\ futures' = {}
    /\ queue' = <<>>
    /\ rate_lock' = NoThread
    /\ UNCHANGED <<now, STOP_EVENT, last_call_ts, penalty_until, trend_cache,
                   cache_file, USE_US_GATE, regions, input_artists, out,
                   processed_names, idx, artist, saved_since_flush, wait_end, exc,
                   call, subj, stop_at, cache_op, latest, window>>

ThreadStep(p) ==
    \/ ThrottleAcquire(p)
    \/ PenaltyWake(p)
    \/ SpacingWake(p)
    \/ StartCall(p)
    \/ JitterWake(p)
    \/ BackoffWake(p)

DriverStep ==
    \/ DriverStart
    \/ DriverLoop
    \/ EnrichArtist
    \/ GateDone
    \/ Poll
    \/ WaitReturn
    \/ EnrichReturn
    \/ WriteRecord
    \/ NextSubject
    \/ Finally

\* what the program can do without the clock moving
Program ==
    \/ DriverStep
    \/ \E p \in Procs : ThreadStep(p)
    \/ \E r \in Regions : JobStart(r)

\* the series the service may return: low or high nationally, one series or
\* only missing values (an empty dict) for a region
ResponseSeries(p) == IF p = "main" THEN {SeriesLo, SeriesHi} ELSE {SeriesHi, <<>>}

\* the service answers a request in flight
Respond(p) ==
    \/ \E s \in ResponseSeries(p) : RespondData(p, s)
    \/ RespondEmpty(p)
    \/ Respond429(p)
    \/ RespondError(p)

\* the clock advances when no thread can take a step
Tick ==
    /\ now < MaxTime
    /\ dpc \notin {"done", "raised", "aborted", "crashed"}
    /\ ~ENABLED Program
    /\ \A p \in Procs : th[p].pc = "inflight" => now < th[p].end
    /\ now' = now + 1
    /\ UNCHANGED <<STOP_EVENT, limiterVars, trend_cache, cache_file, driverVars,
                   th, call, subj, stop_at, cache_op, latest, window>>

Next ==
    \/ DriverStep
    \/ \E p \in Procs : ThreadStep(p)
    \/ \E r \in Regions : JobStart(r)
    \/ \E p \in Procs : Respond(p)
    \/ SigInt
    \/ Tick

Spec == Init /\ [][Next]_vars

SpecDriver == InitDriver /\ [][Next]_vars

\* the start of enricher() over any log of an earlier run, with or without an
\* input batch, up to the first call of enrich_artist
InitStart ==
    \/ InitRun({<<NameA, NameB>>}, ScanLogs, CacheFiles, {FALSE}, {RegionPrefix(1)})
          /\ latest = TRUE /\ window = NoWindow
    \/ InitRun({<<>>}, {<<>>}, CacheFiles, {FALSE}, {RegionPrefix(1)})
          /\ latest = FALSE /\ window = NoWindow

NextStart ==
    \/ DriverStart
    \/ DriverLoop
    \/ Finally

SpecStart == InitStart /\ [][NextStart]_vars

\* two subjects over one region in a run that can be killed at any point
InitCrash == InitWith({<<NameA, NameB>>}, {<<>>}, {NoFile}, BOOLEAN, {RegionPrefix(1)})

NextCrash ==
    \/ DriverStep
    \/ \E p \in Procs : ThreadStep(p)
    \/ \E r \in Regions : JobStart(r)
    \/ \E p \in Procs : Respond(p)
    \/ Tick
    \/ Crash

SpecCrash == InitCrash /\ [][NextCrash]_vars

\* enrich_artist, line 103: the label for the cache pre-check
ScanLabel ==
    /\ window.label = NoLabel
    /\ window' = [window EXCEPT !.label = last_complete_month_label(window.today)]
    /\ UNCHANGED <<now, STOP_EVENT, limiterVars, trend_cache, cache_file, driverVars,
                   th, call, subj, stop_at, cache_op, latest>>

\* get_trend_score_last_complete_month: the label and the range of the request
FetchWindow ==
    /\ window.fetch = NoFetchWindow
    /\ window' = [window EXCEPT !.fetch = fetch_window(window.today)]
    /\ UNCHANGED <<now, STOP_EVENT, limiterVars, trend_cache, cache_file, driverVars,
                   th, call, subj, stop_at, cache_op, latest>>

\* the two window computations, on any day of the years modelled
InitWindow ==
    /\ InitRun({<<NameA>>}, {<<>>}, {NoFile}, {FALSE}, {RegionPrefix(1)})
    /\ latest = TRUE
    /\ window \in {[NoWindow EXCEPT !.today = d] : d \in Dates}

NextWindow ==
    \/ ScanLabel
    \/ FetchWindow

SpecWindow == InitWindow /\ [][NextWindow]_vars

\* one gated subject with its scheduling: a thread that can take a step takes one, the clock
\* advances, and the service answers every request (with data or an error)
InitLive == InitWith({<<NameA>>}, {<<>>}, {NoFile}, {TRUE}, {RegionPrefix(2)})

SpecLive ==
    /\ InitLive /\ [][Next]_vars
    /\ WF_vars(Program)
    /\ WF_vars(Tick)
    /\ WF_vars(\E p \in Procs : Respond(p))

\* two subjects fanned out over three regions, more than the pool has workers,
\* in a run that is not interrupted
InitPool == InitWith({<<NameA, NameB>>}, {<<>>}, {NoFile}, BOOLEAN, {RegionPrefix(3)})

NextPool ==
    \/ DriverStep
    \/ \E p \in Procs : ThreadStep(p)
    \/ \E r \in Regions : JobStart(r)
    \/ \E p \in Procs : Respond(p)
    \/ Tick

SpecPool == InitPool /\ [][NextPool]_vars

\* ------------------------------------------------------------- properties

\* C1: once a 429 has set the penalty window, no outbound request is started
\* by any worker before the window has elapsed, workers already waiting in the
\* throttle included: a request never starts before the __penalty_until in
\* force at its start.
C1_NoCallInsidePenaltyWindow == call.n > 0 => call.t >= call.pen

\* C2: the starts of two consecutive outbound requests, by the same or by
\* different workers, are never less than MIN_INTERVAL_BETWEEN_CALL apart.
C2_MinimumInterval == call.n >= 2 => call.gap >= MIN_INTERVAL_BETWEEN_CALL

\* two requests were made, the second as early as the limiter allows
C2_Witness == call.n >= 2 /\ call.gap = MIN_INTERVAL_BETWEEN_CALL

\* C3: when the flag is set while enrich_artist has region jobs outstanding,
\* enrich_artist has returned one poll timeout later, without waiting for the
\* running or queued jobs to finish.
C3_ReturnsWithinOnePollTick ==
    (stop_at.outstanding /\ dpc \in {"poll", "wait", "shutdown"})
        => now <= stop_at.t + POLL_TIMEOUT

\* C4: when enrich_artist returns after seeing the flag mid-fan-out, the record
\* holds the series of every region whose job had completed with a non-empty
\* series before the return.
C4_CompletedResultsKept ==
    (dpc = "write" /\ subj.midCancel)
        => \A r \in subj.jobs :
              (th[r].pc = "ret" /\ Truthy(th[r].ret)) => artist.trends[r] = th[r].ret

\* the gate is on and the national series of the subject peaks below the threshold
GateBelowPeak ==
    USE_US_GATE /\ Truthy(subj.gate) /\ MaxOf(subj.gate) < US_GATE_MIN_PEAK

\* C5: for a subject whose national series peaks below the threshold with the
\* gate on, no region job is created or issued, the record has
\* daily_trends_US_only = true and no daily_trends_<region> key, and that is
\* the record written.
C5_NationalGate ==
    GateBelowPeak
        => /\ artist.US_only
           /\ subj.jobs = {} /\ futures = {} /\ queue = <<>>
           /\ \A r \in Regions :
                 artist.trends[r] = None /\ th[r].pc = "idle" /\ th[r].nreq = 0
           /\ dpc = "sleep" => out[Len(out)] = artist

\* a subject below the peak was fetched nationally and its record written
C5_Witness == GateBelowPeak /\ dpc = "sleep" /\ th["main"].pc = "idle" /\ call.n > 0

\* C6: for a subject all of whose fingerprints are cached (the national one
\* too when the gate is on), enrich_artist makes no outbound request and no
\* thread enters the throttle.
C6_AllCachedNoRequest ==
    (subj.active /\ subj.cachedAll)
        => \A p \in Procs : th[p].pc \in {"idle", "queued", "ret"} /\ th[p].nreq = 0

\* an all-cached subject went through region jobs and was written with its series
C6_Witness ==
    /\ subj.active /\ subj.cachedAll /\ dpc = "sleep"
    /\ subj.jobs # {}
    /\ \A r \in ToSet(regions) : Truthy(artist.trends[r])

\* every input subject is blank or in the resume set
AllInResumeSet ==
    \A i \in 1..Len(input_artists) :
        \/ Strip(input_artists[i]) = <<>>
        \/ LowerStr(Strip(input_artists[i])) \in processed_names

\* C7: a subject whose trimmed, lower-cased name is in the resume set is
\* neither fetched nor written in the run; when that is every input subject,
\* the run appends no line and makes no request.
C7_Resume ==
    dpc # "start"
        => /\ \A i \in 1..Len(out) : LowerStr(Strip(out[i].artist)) \notin processed_names
           /\ subj.active => LowerStr(CurName) \notin processed_names
           /\ AllInResumeSet
                 => out = <<>> /\ call.n = 0 /\ ~subj.active /\ dpc # "enrich"

\* a run over a fully logged input (one name in another case) ran to its end
C7_Witness ==
    /\ dpc = "done" /\ ~STOP_EVENT /\ AllInResumeSet
    /\ \E i \in 1..Len(input_artists) :
          Strip(input_artists[i]) # <<>> /\ Strip(input_artists[i]) \notin processed_names

\* C8: on every way out of the subject loop (the end of the input, the flag, an
\* exception) the cache has been saved a last time, and the file equals the
\* in-memory cache.
C8_FinalSave ==
    dpc \in {"done", "raised"}
        => cache_file.exists /\ json_load(cache_file.obj) = trend_cache

\* an exception left the loop before any periodic save, with fetched series
C8_Witness == dpc = "raised" /\ out = <<>> /\ trend_cache \notin {EmptyCache, CachedA}

\* C9: get_trend_score never raises: a call whose last response was a 429 or
\* another error has returned None.
C9_NeverRaises ==
    \A p \in Procs :
        /\ th[p].pc # "raised"
        /\ (th[p].pc = "ret" /\ th[p].last \in {"429", "error"}) => th[p].ret = None

\* a call failed with an error on its last attempt and returned
C9_Witness ==
    \E p \in Procs : th[p].pc = "ret" /\ th[p].last = "error" /\ th[p].nreq = MAX_RETRIES

\* C10: one get_trend_score call makes at most MAX_RETRIES requests; after an
\* empty response it has returned None without a further attempt; after a
\* failure it retries only while attempts remain and has returned None once the
\* budget is used up.
C10_RetryBudget ==
    \A p \in Procs :
        /\ th[p].nreq <= MAX_RETRIES /\ th[p].attempt <= MAX_RETRIES
        /\ th[p].last = "empty" => th[p].pc = "ret" /\ th[p].ret = None
        /\ (th[p].pc = "backoff") => th[p].attempt < MAX_RETRIES
        /\ (th[p].last \in {"429", "error"} /\ th[p].nreq = MAX_RETRIES
                /\ th[p].pc # "inflight")
              => th[p].pc = "ret" /\ th[p].ret = None

\* a call was rate-limited on every attempt of its budget
C10_Witness ==
    \E p \in Procs : th[p].pc = "ret" /\ th[p].last = "429" /\ th[p].nreq = MAX_RETRIES

C12_CacheRoundTrip ==
    /\ cache_op.step \in {"set", "saved", "loaded"}
          => get_cached_score(cache_op.key) = cache_op.score
    /\ cache_op.step \in {"saved", "loaded"}
          => /\ cache_file.exists
             /\ <<cache_op.key, cache_op.score>> \in cache_file.obj
             /\ json_load(cache_file.obj) = trend_cache

\* an empty series was set over another one, saved and loaded among other entries
C12_Witness ==
    /\ cache_op.step = "loaded" /\ cache_op.score = <<>>
    /\ \E k \in ProbeIds \ {cache_op.key} : Truthy(trend_cache[k])

\* a is b with some elements left out
RECURSIVE IsSubseq(_, _)
IsSubseq(a, b) ==
    IF a = <<>> THEN TRUE
    ELSE IF b = <<>> THEN FALSE
    ELSE IF Head(a) = Head(b) THEN IsSubseq(Tail(a), Tail(b))
    ELSE IsSubseq(a, Tail(b))

\* C13: the lines appended in a run are in the order of their subjects in the
\* input list, and a line is appended only by the driver, for the subject at
\* hand, after enrich_artist has returned and with no fetch of any thread under
\* way.
C13_LogOrder ==
    /\ [](IsSubseq([i \in 1..Len(out) |-> out[i].artist], input_artists))
    /\ [][out' # out
            => /\ dpc = "write"
               /\ out' = Append(out, artist)
               /\ artist.artist = input_artists[idx]
               /\ queue = <<>>
               /\ \A p \in Procs : th[p].pc \in {"idle", "ret"}
         ]_vars

\* two different subjects were fetched and written one after the other
C13_Witness ==
    /\ Len(out) = 2 /\ call.n >= 2
    /\ out[1].artist = input_artists[1] /\ out[2].artist = input_artists[2]
    /\ out[1].artist # out[2].artist

\* C14: at most MAX_WORKERS_PER_ARTIST requests are in flight and at most that
\* many region jobs are executing at any moment; the gate fetch runs with no
\* region job about; region jobs exist only while the driver is inside the pool
\* block of the subject at hand, so jobs of two subjects never overlap.
C14_BoundedConcurrency ==
    /\ Cardinality({p \in Procs : th[p].pc = "inflight"}) <= MAX_WORKERS_PER_ARTIST
    /\ Cardinality({r \in Regions : th[r].pc \notin {"idle", "queued", "ret"}})
          <= MAX_WORKERS_PER_ARTIST
    /\ th["main"].pc \notin {"idle", "ret"} => \A r \in Regions : th[r].pc = "idle"
    /\ (\E r \in Regions : th[r].pc \notin {"idle", "ret"})
          => dpc \in {"poll", "wait", "shutdown"} /\ subj.active
    /\ dpc \in {"loop", "enrich", "gate"} => \A r \in Regions : th[r].pc \in {"idle", "ret"}

\* the second subject's jobs fill the pool while one more is queued
C14_Witness ==
    /\ idx = 2 /\ Len(out) = 1 /\ queue # <<>>
    /\ Cardinality({r \in Regions : th[r].pc \notin {"idle", "queued", "ret"}})
          = MAX_WORKERS_PER_ARTIST

InThrottle(p) == th[p].pc \in {"lock", "pen_sleep", "gap_sleep", "precall"}

\* C16: with the flag set, a caller inside the throttle waits no longer (the
\* clock does not advance while one is there), leaves it only by returning
\* None without having made a request, and no request starts; callers queued
\* on the lock likewise.
C16_ThrottleCancelled ==
    [][STOP_EVENT
          => /\ call' = call
             /\ (\E p \in Procs : InThrottle(p)) => now' = now
             /\ \A p \in Procs :
                   (InThrottle(p) /\ th'[p].pc \notin {"lock", "pen_sleep", "gap_sleep", "precall"})
                       => /\ th'[p].pc = "ret" /\ th'[p].ret = None
                          /\ th'[p].nreq = th[p].nreq
      ]_vars

\* the flag is set while one worker is in the penalty wait, holding the lock,
\* and another is queued on the lock
C16_Witness ==
    /\ STOP_EVENT
    /\ \E p, q \in Regions :
          /\ th[p].pc = "pen_sleep" /\ th[p].end > now /\ rate_lock = p
          /\ th[q].pc = "lock"

\* C17: the flag is sticky: once set it stays set, whatever step the driver,
\* the executor, the fetcher or the limiter takes.
C17_StopSticky == [][STOP_EVENT => STOP_EVENT']_vars

\* the flag was set mid-fan-out and the run went on to its end with it set
C17_Witness == STOP_EVENT /\ stop_at.outstanding /\ dpc = "done" /\ Len(out) > 0

\* the bounds of the model cut the run short: a thread sleeps beyond the last
\* clock value, or a request would exceed the number of requests modelled
Truncated ==
    \/ /\ now = MaxTime
       /\ \E p \in Procs :
             th[p].pc \in {"pen_sleep", "gap_sleep", "jitter", "backoff"} /\ th[p].end > now
    \/ \E p \in Procs : th[p].pc = "precall" /\ ~STOP_EVENT /\ call.n >= MaxCalls

\* C18: a subject that passed the loop check is eventually written, whatever
\* failures, rejections, empty results or cancellation its fetches meet (unless
\* the write to the log itself raises); one line is appended for it, and the
\* driver is never left in enrich_artist with nothing more to happen.
C18_SubjectWritten ==
    /\ (dpc = "enrich") ~> (\/ dpc = "sleep" /\ Len(out) = idx
                               /\ out[idx].artist = input_artists[idx]
                            \/ exc
                            \/ Truncated)
    /\ [](Len(out) <= idx /\ (SubjectBegun => Len(out) = idx - 1))

\* the subject was written although one fetch failed on every attempt and the
\* flag was set during the fan-out
C18_Witness ==
    /\ dpc = "sleep" /\ Len(out) = 1 /\ STOP_EVENT /\ stop_at.outstanding
    /\ \E p \in Regions : th[p].last \in {"429", "error"} /\ th[p].ret = None

\* a series with exactly one dated score
OneDate(s) == s # None /\ Len(s) = 1

\* the first subject is written, without the gate, after each of its three
\* region fetches made one request that was answered with a one-date series
ThreeFetched ==
    /\ ~USE_US_GATE /\ Len(regions) = 3 /\ idx = 1 /\ dpc = "sleep"
    /\ call.n = 3
    /\ \A r \in ToSet(regions) :
          th[r].last = "data" /\ th[r].nreq = 1 /\ OneDate(th[r].ret)

\* C19: without the gate, a subject with three regions, none cached, whose three
\* requests each return a one-date series, gets a record with the three region
\* keys, one date each; the log gains exactly one line and the cache exactly
\* three entries, the subject's three region fingerprints.
C19_ThreeRegionsEndToEnd ==
    ThreeFetched =>
        /\ Len(out) = 1
        /\ out[1].artist = input_artists[1]
        /\ \A r \in ToSet(regions) :
              OneDate(out[1].trends[r]) /\ out[1].trends[r] = th[r].ret
        /\ {k \in CacheIds : trend_cache[k] # None}
              = {fetch_id(input_artists[1], r) : r \in ToSet(regions)}
        /\ Cardinality({k \in CacheIds : trend_cache[k] # None}) = 3
        /\ \A r \in ToSet(regions) :
              trend_cache[fetch_id(input_artists[1], r)] = out[1].trends[r]

\* the scenario happened, with more jobs than the pool has workers
C19_Witness == ThreeFetched /\ Len(out) = 1 /\ Cardinality(ToSet(regions)) > MAX_WORKERS_PER_ARTIST

\* the gate is on with its threshold of 50, and the subject's national fetch
\* returned a series whose maximum is 30
NationalPeak30 ==
    /\ USE_US_GATE /\ US_GATE_MIN_PEAK = 50
    /\ Truthy(subj.gate) /\ MaxOf(subj.gate) = 30

\* C20: with the gate on (threshold 50), a subject whose national fetch returns
\* a series peaking at 30 gets a record with daily_trends_US_only = true and no
\* region key, that record is the line written, no region request is made, and
\* the cache gains exactly one entry: the national fingerprint with that series.
C20_GateRejectEndToEnd ==
    NationalPeak30 =>
        /\ artist.US_only
        /\ \A r \in Regions : artist.trends[r] = None /\ th[r].nreq = 0
        /\ {k \in CacheIds : trend_cache[k] # None} = {fetch_id(artist.artist, "main")}
        /\ trend_cache[fetch_id(artist.artist, "main")] = subj.gate
        /\ call.n >= 1
        /\ (dpc # "write" /\ ~exc) => out = <<artist>>

\* the subject was rejected after a single national request and written
C20_Witness ==
    /\ NationalPeak30 /\ dpc = "sleep" /\ call.n = 1
    /\ Len(out) = 1 /\ out[1].US_only
    /\ Cardinality({k \in CacheIds : trend_cache[k] # None}) = 1

\* the names of the well-formed lines of a log, trimmed, lower-cased
WellFormedNames(lines) ==
    {NameOf(lines[i]) : i \in {j \in 1..Len(lines) : WellFormed(lines[j])}} \ {<<>>}

\* C21: whatever malformed lines the log holds, the resume scan does not abort
\* and returns the names of all its well-formed lines, those before and those
\* after a malformed line.
C21_ScanSkipsMalformed ==
    (latest /\ dpc \in {"loop", "aborted"} /\ out = <<>>)
        => dpc = "loop" /\ processed_names = WellFormedNames(output_file)

\* C22: without an input batch the run aborts at its start: the in-memory cache,
\* the cache file and the output log are left as they were, nothing is loaded,
\* saved, fetched or appended.
C22_MissingBatchAborts ==
    /\ [](~latest => dpc \in {"start", "aborted"})
    /\ [][~latest => /\ dpc = "start" /\ dpc' = "aborted"
                     /\ UNCHANGED <<trend_cache, cache_file, output_file, out,
                                    processed_names, call, th, limiterVars>>]_vars

\* the run aborted without a batch, leaving an existing cache file unread
C22_Witness ==
    ~latest /\ dpc = "aborted" /\ cache_file.exists /\ trend_cache = EmptyCache

\* C23: a record appended by the driver is on disk, as a complete line, from
\* then on: a crash at any later point (cache save, sleep, next subject) leaves
\* every line written so far in the log and its subject in the resume set of the
\* next run.
C23_LineSurvivesCrash ==
    dpc = "crashed" =>
        /\ Len(output_file) >= Len(out)
        /\ \A i \in 1..Len(out) :
              /\ output_file[i] = out[i]
              /\ LowerStr(Strip(out[i].artist)) \in get_processed_artist_names(output_file)

\* thread p is inside the `with __rate_lock` block, or takes the lock in the
\* step it is about to make
InRateLock(p) == rate_lock = p \/ (rate_lock = NoThread /\ th[p].pc = "lock")

\* C24: the limiter's timestamps are read and written only under one lock: a
\* thread that changes __last_call_ts or __penalty_until holds __rate_lock, the
\* lock under which both are read, and a thread in the throttle's waits (which
\* has read them) holds it too.
C24_SingleLock ==
    /\ [](\A p \in Procs : th[p].pc \in {"pen_sleep", "gap_sleep"} => rate_lock = p)
    /\ [][\A p \in Procs :
            (th'[p] # th[p] /\ (last_call_ts' # last_call_ts
                                  \/ penalty_until' # penalty_until))
                => InRateLock(p)]_vars

\* the fetcher holds a series for the subject's fingerprint in region r
FetcherCached(r) == get_cached_score(fetch_id(CurName, r)) # None

\* C25: when enrich_artist selects its jobs, every region whose fingerprint (as
\* the fetcher writes it) is cached gets its series merged at once and no job;
\* when that is every region, enrich_artist returns without a pool and without
\* a job.
C25_CachedRegionsGetNoJob ==
    [][(dpc \in {"enrich", "gate"} /\ dpc' \in {"poll", "write"} /\ ~artist'.US_only)
          => /\ \A r \in ToSet(regions) :
                   FetcherCached(r)
                      => /\ r \notin futures'
                         /\ artist'.trends[r] = get_cached_score(fetch_id(CurName, r))
             /\ (\A r \in ToSet(regions) : FetcherCached(r))
                   => dpc' = "write" /\ futures' = {} /\ queue' = <<>>]_vars

\* thread p enters get_trend_score in this step: the driver for the national
\* fetch, a pool worker for its region job
Enters(p) == th[p].pc \in {"idle", "queued"} /\ th'[p].pc \notin {"idle", "queued"}

\* what a call that hits the cache does: the cached series is returned in the
\* same step, without a request, with the limiter and the cache left alone
ReturnsCached(p) ==
    /\ th'[p].pc = "ret"
    /\ th'[p].ret = get_cached_score(cache_id(p))
    /\ th'[p].nreq = 0
    /\ UNCHANGED <<last_call_ts, penalty_until, rate_lock, trend_cache, call>>

\* C26, as stated: whenever get_trend_score is called for a cached fingerprint
\* it returns the cached series at once, without the throttle or a request, and
\* leaves the limiter's timestamps and the cache unchanged.
C26_CacheHitAlways ==
    [][\A p \in Procs : (Enters(p) /\ get_cached_score(cache_id(p)) # None)
                            => ReturnsCached(p)]_vars

\* C26, amended: the same for every call made while the flag is not set.
C26_CacheHit ==
    [][\A p \in Procs :
          (Enters(p) /\ get_cached_score(cache_id(p)) # None /\ ~STOP_EVENT)
              => ReturnsCached(p)]_vars

\* a call returned a cached series in a run without any request
C26_Witness ==
    /\ ~STOP_EVENT /\ call.n = 0 /\ last_call_ts = 0
    /\ \E p \in Procs : /\ th[p].pc = "ret" /\ th[p].nreq = 0
                        /\ Truthy(th[p].ret) /\ th[p].ret = get_cached_score(cache_id(p))

\* no job of the pool is queued or running, and no fetch is under way
NoJobRunning == queue = <<>> /\ \A p \in Procs : th[p].pc \in {"idle", "ret"}

\* C27: save_cache runs only in the driver thread, after enrich_artist has
\* returned or in the exit handler, at a moment when no region job is queued or
\* running, also after the flag was set: no fetch can store a series while the
\* cache is being dumped.
C27_SaveWithoutWorkers ==
    /\ [](dpc \in {"write", "sleep", "loop", "finally", "done", "raised"} => NoJobRunning)
    /\ [][cache_file' # cache_file
             => /\ dpc \in {"write", "finally"}
                /\ NoJobRunning
                /\ cache_file' = FileOf(trend_cache)
                /\ trend_cache' = trend_cache]_vars

\* the cache was saved with fetched series after the flag was set mid-fan-out
C27_Witness ==
    /\ dpc = "sleep" /\ STOP_EVENT /\ stop_at.outstanding
    /\ cache_file.exists /\ cache_file.obj # {} /\ NoJobRunning

\* thread p receives a rate-limit rejection in this step
Rejected(p) ==
    th[p].pc = "inflight" /\ th'[p].pc # "inflight" /\ th'[p].last = "429"

\* C28: right after a rejection at time t, __penalty_until is t + the cooldown,
\* however the rejections of several workers interleave; the value never
\* decreases, and only a rejection changes it.
C28_PenaltyAfterRejection ==
    [][/\ \A p \in Procs : Rejected(p) => penalty_until' = now + penalty_seconds
       /\ penalty_until' >= penalty_until
       /\ penalty_until' # penalty_until => \E p \in Procs : Rejected(p)]_vars

\* two workers were rejected, the second while the window of the first was open
C28_Witness ==
    /\ \A r \in ToSet(regions) : th[r].last = "429"
    /\ Len(regions) = 2
    /\ penalty_until > MIN_INTERVAL_BETWEEN_CALL + penalty_seconds
    /\ penalty_until < MIN_INTERVAL_BETWEEN_CALL + 2 * penalty_seconds

\* thread p leaves get_trend_score in this step, after the jitter sleep that
\* follows the store of a non-empty series
ReturnsAfterStore(p) ==
    th[p].pc = "jitter" /\ th'[p].pc = "ret" /\ Truthy(th[p].ser)

\* C29, as stated: a call that stored a freshly fetched non-empty series returns
\* that series.
C29_StoredIsReturned ==
    [][\A p \in Procs : ReturnsAfterStore(p) => th'[p].ret = th[p].ser]_vars

\* C29, amended: a call that stored a freshly fetched non-empty series returns
\* that series, the one in the cache under its fingerprint, unless it sees the
\* flag set during its jitter sleep, in which case it returns nothing; and every
\* series a call returns is the one in the cache under its fingerprint.
C29_StoredIsReturnedUnlessCancelled ==
    /\ [][\A p \in Procs :
            ReturnsAfterStore(p)
               => /\ get_cached_score(cache_id(p)) = th[p].ser
                  /\ th'[p].ret = IF STOP_EVENT /\ now < th[p].end THEN None
                                                                   ELSE th[p].ser]_vars
    /\ [](\A p \in Procs :
            (th[p].pc = "ret" /\ th[p].ret # None)
                => get_cached_score(cache_id(p)) = th[p].ret)

\* a call made one request, stored its series and returned it
C29_Witness ==
    \E p \in Procs :
        /\ th[p].pc = "ret" /\ th[p].nreq = 1 /\ th[p].last = "data"
        /\ Truthy(th[p].ret) /\ get_cached_score(cache_id(p)) = th[p].ret

\* thread p leaves the throttle's waits in this step and records the call
Proceeds(p) ==
    /\ th[p].pc \in {"lock", "pen_sleep", "gap_sleep"}
    /\ th'[p].pc = "precall"

\* when thread p read the clock under the lock
EnteredAt(p) == IF th[p].pc = "lock" THEN now ELSE th[p].lnow

Max2(a, b) == IF a >= b THEN a ELSE b

\* C30: a caller of the throttle waits for the end of an active penalty window,
\* otherwise for the rest of the minimum interval since the last call; it
\* proceeds as soon as both have elapsed, with no further wait, and then records
\* the new last-call timestamp.
C30_NoAdditionalWait ==
    [][\A p \in Procs :
          Proceeds(p)
             => /\ last_call_ts' = now
                /\ now <= Max2(EnteredAt(p),
                               Max2(penalty_until,
                                    last_call_ts + MIN_INTERVAL_BETWEEN_CALL))]_vars

\* thread p is in one of the fetch path's sleeps, with time left
FetchSleeping(p) ==
    th[p].pc \in {"pen_sleep", "gap_sleep", "backoff", "jitter"} /\ now < th[p].end

\* the driver is in its sleep between two subjects, with time left
DriverSleeping == dpc = "sleep" /\ now < wait_end

\* C31: every sleep of the fetch path and of the driver looks at the flag on
\* each of its ticks: once the flag is set no sleep goes on, whatever delay is
\* left; the clock (whose unit is longer than a tick) does not advance while a
\* thread or the driver is still in a sleep.
C31_SleepsInterruptible ==
    [][(STOP_EVENT /\ (DriverSleeping \/ \E p \in Procs : FetchSleeping(p)))
          => now' = now]_vars

\* the month before the month of a date, as <<year, month>>
MonthBefore(d) == IF d[2] = 1 THEN <<d[1] - 1, 12>> ELSE <<d[1], d[2] - 1>>

\* the day after a date
DayAfter(d) ==
    IF d[3] < monthrange(d[1], d[2]) THEN <<d[1], d[2], d[3] + 1>>
    ELSE IF d[2] < 12 THEN <<d[1], d[2] + 1, 1>>
    ELSE <<d[1] + 1, 1, 1>>

\* C32: on every date of month M of year Y, the window is month M-1 of year Y,
\* December of Y-1 in January: its label names that month and year, its range
\* runs from the first to the last day of that month, and the label of the
\* driver's cache pre-check equals the fetcher's for the same date.
C32_WindowSelection ==
    /\ window.fetch # NoFetchWindow =>
          /\ window.fetch.label
                = <<month_abbr[MonthBefore(window.today)[2]], MonthBefore(window.today)[1]>>
          /\ window.fetch.start
                = <<MonthBefore(window.today)[1], MonthBefore(window.today)[2], 1>>
          /\ window.fetch.end[1] = window.fetch.start[1]
          /\ window.fetch.end[2] = window.fetch.start[2]
          /\ DayAfter(window.fetch.end) = <<window.today[1], window.today[2], 1>>
    /\ window.label # NoLabel =>
          window.label
             = <<month_abbr[MonthBefore(window.today)[2]], MonthBefore(window.today)[1]>>
    /\ (window.label # NoLabel /\ window.fetch # NoFetchWindow)
          => window.label = window.fetch.label

\* both were computed on a day of January: the window is the December before
C32_Witness ==
    /\ window.today[1] = 2025 /\ window.today[2] = 1
    /\ window.label = <<"Dec", 2024>>
    /\ window.fetch = [label |-> <<"Dec", 2024>>, start |-> <<2024, 12, 1>>,
                       end |-> <<2024, 12, 31>>]

\* the log as it is once the handle is closed: the lines of earlier runs and
\* those written in this one
WholeLog == IF dpc \in {"done", "raised"} THEN output_file ELSE output_file \o out

\* no two lines of the log have the same name, trimmed and lower-cased
OneLinePerName ==
    \A i, j \in 1..Len(WholeLog) :
        i # j => NameOf(WholeLog[i]) # NameOf(WholeLog[j])

\* no two entries of the input list have the same name, trimmed and lower-cased
InputDistinct ==
    \A i, j \in 1..Len(input_artists) :
        i # j => LowerStr(Strip(input_artists[i])) # LowerStr(Strip(input_artists[j]))

GateLookedUp == get_cached_score(cache_id("main")) # None \/ call.n >= 1

\* C34: a record is written with daily_trends_US_only = true only if the
\* national series of the subject was looked up, in the cache or by at least
\* one request; a gate fetch given up because the flag was set writes no
\* national-only record.
C34_NationalOnlyLookedUp ==
    [][(dpc = "write" /\ out' = Append(out, artist) /\ artist.US_only)
          => GateLookedUp]_vars

\* with the flag set, thread p leaves the throttle by a return of None before
\* its waits (the look at the flag that opens an attempt, line 61) or during
\* one of them (lines 71 and 77)
ThrottleRefuses(p) ==
    /\ STOP_EVENT
    /\ \/ th[p].pc \in {"pen_sleep", "gap_sleep"}
       \/ th[p].pc = "backoff" /\ SleepOver(p)
    /\ th'[p].pc = "ret" /\ th'[p].ret = None

\* C35: when the throttle refuses because of cancellation, before or during
\* either of its waits, __last_call_ts and __penalty_until keep their values
\* and __rate_lock is free of the caller afterwards.
C35_RefusalLeavesLimiter ==
    [][\A p \in Procs :
          ThrottleRefuses(p)
              => /\ last_call_ts' = last_call_ts
                 /\ penalty_until' = penalty_until
                 /\ rate_lock' # p
                 /\ rate_lock = p => rate_lock' = NoThread]_vars

\* the only request of the run was answered with 429; its worker slept the
\* backoff out, came back to the throttle and was in the penalty wait when the
\* flag was set, one tick before the window closes; it has returned None, the
\* lock is free and both timestamps are those of that request
C35_Witness ==
    /\ STOP_EVENT /\ stop_at.outstanding /\ stop_at.t = penalty_until - 1
    /\ call.n = 1 /\ last_call_ts = call.t /\ last_call_ts > 0
    /\ rate_lock = NoThread
    /\ \E p \in Regions : /\ th[p].pc = "ret" /\ th[p].ret = None
                          /\ th[p].nreq = 1 /\ th[p].last = "429"

\* thread p is in the throttle's section under __rate_lock (lines 64-79): in
\* one of the two waits, the recording of line 79 being the step that leaves it
InRateSection(p) == th[p].pc \in {"pen_sleep", "gap_sleep"}

\* C36: two successive values of __last_call_ts, whichever workers recorded
\* them, lie at least MIN_INTERVAL_BETWEEN_CALL apart, and at most one worker
\* at a time is in the throttle's waiting and recording section.
C36_SpacedAndExclusive ==
    /\ [](\A p, q \in Procs : (InRateSection(p) /\ InRateSection(q)) => p = q)
    /\ [](\A p \in Procs : InRateSection(p) => rate_lock = p)
    /\ [][last_call_ts' # last_call_ts
             => last_call_ts' - last_call_ts >= MIN_INTERVAL_BETWEEN_CALL]_vars

\* a second timestamp has been recorded, by another worker than the first and
\* as early as the spacing allows, while a third worker stands at the lock
C36_Witness ==
    /\ call.n = 1 /\ last_call_ts = call.t + MIN_INTERVAL_BETWEEN_CALL
    /\ \E p, q, r \in Regions :
          /\ p # q /\ q # r /\ p # r
          /\ th[p].nreq = 1
          /\ th[q].pc = "precall" /\ th[q].nreq = 0
          /\ th[r].pc = "lock"

\* the run is over: the driver has returned or raised
RunOver == dpc \in {"done", "raised", "aborted"}

\* the bounds of the model cut the run short: as Truncated, or the driver
\* itself waits (poll timeout, sleep between subjects) beyond the last clock
\* value
CutShort ==
    \/ Truncated
    \/ now = MaxTime /\ dpc \in {"wait", "sleep"} /\ wait_end > now

\* thread p is inside get_trend_score
InFetch(p) == th[p].pc \notin {"idle", "queued", "ret"}

\* a worker waits in the throttle or on its lock, or a job waits in the queue
\* of the pool
WaitingWorker(p) == InThrottle(p) \/ th[p].pc = "queued"

\* the run has come to rest: it is over, or cut short by the bounds, and under
\* the flag no worker is left waiting
AtRest == (RunOver \/ CutShort) /\ (STOP_EVENT => \A p \in Procs : ~WaitingWorker(p))

\* C37: termination. Whatever the service answers and whether or not the flag
\* is set, the driver run ends (it cannot stay for ever anywhere short of its
\* end, in enrich_artist least of all), and when it has ended no
\* get_trend_score call and no throttle wait is still under way and no job is
\* queued; a call makes at most MAX_RETRIES attempts; and once the flag is
\* set, the workers waiting in the throttle or queued for it return.
C37_Termination ==
    /\ []<>AtRest
    /\ [](RunOver => (queue = <<>> /\ \A p \in Procs : ~InFetch(p)))
    /\ [](\A p \in Procs : th[p].attempt <= MAX_RETRIES /\ th[p].nreq <= MAX_RETRIES)

\* the run has ended under the flag, set during a fan-out, after a fetch had
\* used up its attempts and while the penalty window of a rejection was open
C37_Witness ==
    /\ dpc = "done" /\ STOP_EVENT /\ stop_at.outstanding
    /\ call.n > MAX_RETRIES /\ now < penalty_until
    /\ Len(out) = 1

============================================================================
